---------------------------- MODULE Spec2Model ----------------------------
(***************************************************************************)
(* A model of yamlinclude/constructor.py: the YamlIncludeConstructor that  *)
(* PyYAML loaders call for the !include tag.                               *)
(*                                                                         *)
(* Character strings are sequences of one-character strings, so that the   *)
(* regular expressions and the path functions of the source work on the    *)
(* characters they really see.  Three specifications share the variables:  *)
(*   SpecSubst  the variable substitution of load (lines 118-148),         *)
(*   Spec       load, loadYaml and __call__ as a machine of nested calls   *)
(*              with the file handles they open (LiveSpec adds fairness),  *)
(*   SpecReg    add_to_loader_class and the loaders' constructor tables.   *)
(***************************************************************************)
EXTENDS Naturals, Sequences, FiniteSets, TLC

VARIABLES
    environ,    \* os.environ: a function from names to values
    base_dir,   \* self._base_dir of the registered constructor
    phase,      \* "idle" | "running" | "done" | "failed" | "substituted"
    stack,      \* the active calls of load, innermost last
    openFiles,  \* the file handles io.open returned and nobody closed yet
    outcome,    \* what the top-level include gave the parser
    pathname,   \* SpecSubst: the pathname argument of load
    sres,       \* SpecSubst: the pathname after lines 118-148, or the exception
    registry,   \* SpecReg: loader class -> tag -> constructor instance
    regCall,    \* SpecReg: the last call of add_to_loader_class and its result
    mutated     \* history: base_dir was changed while the parse at hand ran

vars == <<environ, base_dir, phase, stack, openFiles, outcome,
          pathname, sres, registry, regCall, mutated>>

(***************************************************************************)
(* Bounds of the model.                                                    *)
(***************************************************************************)
\* How many segments a pathname of SpecSubst is built from.
MaxParts == 2
\* The interpreter's limit on nested calls, counted in nested includes.
RecursionLimit == 3
\* How many times add_to_loader_class is called in one behaviour of SpecReg.
MaxRegs == 3

(***************************************************************************)
(* Characters and strings.                                                 *)
(***************************************************************************)
NL == "\n"
BSL == "\\"
EmptyStr == <<>>
Digits == {"0", "1", "2", "3", "4", "5", "6", "7", "8", "9"}
AsciiLetters ==
    {"a", "b", "c", "d", "e", "f", "g", "h", "i", "j", "k", "l", "m",
     "n", "o", "p", "q", "r", "s", "t", "u", "v", "w", "x", "y", "z",
     "A", "B", "C", "D", "E", "F", "G", "H", "I", "J", "K", "L", "M",
     "N", "O", "P", "Q", "R", "S", "T", "U", "V", "W", "X", "Y", "Z"}

Min(S) == CHOOSE x \in S : \A y \in S : x =< y

\* The first index at or after i whose character is in stop, or Len(s) + 1.
FirstIn(s, i, stop) ==
    LET hits == {j \in i..Len(s) : s[j] \in stop}
    IN  IF hits = {} THEN Len(s) + 1 ELSE Min(hits)

RECURSIVE Concat(_)
Concat(ss) == IF ss = <<>> THEN <<>> ELSE Head(ss) \o Concat(Tail(ss))

StartsWith(s, p) == Len(p) =< Len(s) /\ SubSeq(s, 1, Len(p)) = p
EndsWith(s, p) ==
    Len(p) =< Len(s) /\ SubSeq(s, Len(s) - Len(p) + 1, Len(s)) = p

(***************************************************************************)
(* os_env_path_matcher.findall: the tokens of the non-overlapping matches  *)
(* of \$\{([^}^{]+)\}, scanned from the left.  The class excludes "}", "^" *)
(* and "{"; its greedy run ends at the first of them, which must be "}".   *)
(***************************************************************************)
RECURSIVE FindAllFrom(_, _)
FindAllFrom(s, i) ==
    IF i > Len(s) THEN <<>>
    ELSE IF i + 1 =< Len(s) /\ s[i] = "$" /\ s[i + 1] = "{"
         THEN LET e == FirstIn(s, i + 2, {"}", "^", "{"})
              IN  IF e > i + 2 /\ e =< Len(s) /\ s[e] = "}"
                  THEN <<SubSeq(s, i + 2, e - 1)>> \o FindAllFrom(s, e + 1)
                  ELSE FindAllFrom(s, i + 1)
         ELSE FindAllFrom(s, i + 1)

valueNames(s) == FindAllFrom(s, 1)

(***************************************************************************)
(* str.split(sep): the pieces between the separators, empty ones kept.     *)
(* keyList is valueName.split("."), line 134.                              *)
(***************************************************************************)
RECURSIVE SplitOn(_, _)
SplitOn(s, sep) ==
    LET d == FirstIn(s, 1, {sep})
    IN  IF d > Len(s) THEN <<s>>
        ELSE <<SubSeq(s, 1, d - 1)>> \o SplitOn(SubSeq(s, d + 1, Len(s)), sep)

keyList(valueName) == SplitOn(valueName, ".")

(***************************************************************************)
(* The values yaml.load gives for the config variable, and str() of them.  *)
(* A mapping keeps its pairs in insertion order, as a dict does.           *)
(***************************************************************************)
StrV(s) == [t |-> "str", s |-> s]
IntV(n) == [t |-> "int", n |-> n]
NullV == [t |-> "null"]
ListV(xs) == [t |-> "list", xs |-> xs]
MapV(kv) == [t |-> "map", kv |-> kv]

DigitChar(n) ==
    CASE n = 0 -> "0" [] n = 1 -> "1" [] n = 2 -> "2" [] n = 3 -> "3"
      [] n = 4 -> "4" [] n = 5 -> "5" [] n = 6 -> "6" [] n = 7 -> "7"
      [] n = 8 -> "8" [] n = 9 -> "9"

RECURSIVE IntChars(_)
IntChars(n) ==
    IF n < 10 THEN <<DigitChar(n)>>
    ELSE IntChars(n \div 10) \o <<DigitChar(n % 10)>>

RECURSIVE Repr(_), ReprItems(_), ReprPairs(_)
\* repr() of a value: what str() of a dict or a list shows of its members.
Repr(v) ==
    CASE v.t = "str" -> <<"'">> \o v.s \o <<"'">>
      [] v.t = "int" -> IntChars(v.n)
      [] v.t = "null" -> <<"N", "o", "n", "e">>
      [] v.t = "list" -> <<"[">> \o ReprItems(v.xs) \o <<"]">>
      [] v.t = "map" -> <<"{">> \o ReprPairs(v.kv) \o <<"}">>
ReprItems(xs) ==
    IF xs = <<>> THEN <<>>
    ELSE IF Len(xs) = 1 THEN Repr(xs[1])
    ELSE Repr(xs[1]) \o <<",", " ">> \o ReprItems(Tail(xs))
ReprPairs(kv) ==
    IF kv = <<>> THEN <<>>
    ELSE LET one == <<"'">> \o kv[1].k \o <<"'", ":", " ">> \o Repr(kv[1].v)
         IN  IF Len(kv) = 1 THEN one
             ELSE one \o <<",", " ">> \o ReprPairs(Tail(kv))

\* str(aValue)
Str(v) == IF v.t = "str" THEN v.s ELSE Repr(v)

(***************************************************************************)
(* The texts the config variable holds in the model, and yaml.load of      *)
(* each (with FullLoader).  CfgBad is not YAML: the flow sequence is open. *)
(***************************************************************************)
ConfigName == <<"c", "o", "n", "f", "i", "g">>
CfgNested == <<"a", ":", " ", "{", "b", ":", " ", "v", "}">>
CfgInt == <<"a", ":", " ", "{", "b", ":", " ", "7", "}">>
CfgFlat == <<"a", ":", " ", "v">>
CfgScalar == <<"v">>
CfgNull == <<>>
CfgList == <<"[", "v", "]">>
CfgBad == <<"a", ":", " ", "[">>
ConfigTexts ==
    {CfgNested, CfgInt, CfgFlat, CfgScalar, CfgNull, CfgList, CfgBad}

Pair(k, v) == [k |-> k, v |-> v]

varsFromYamlConfig(raw) ==
    CASE raw = CfgNested ->
           [err |-> FALSE,
            v |-> MapV(<<Pair(<<"a">>, MapV(<<Pair(<<"b">>, StrV(<<"v">>))>>))>>)]
      [] raw = CfgInt ->
           [err |-> FALSE,
            v |-> MapV(<<Pair(<<"a">>, MapV(<<Pair(<<"b">>, IntV(7))>>))>>)]
      [] raw = CfgFlat ->
           [err |-> FALSE, v |-> MapV(<<Pair(<<"a">>, StrV(<<"v">>))>>)]
      [] raw = CfgScalar -> [err |-> FALSE, v |-> StrV(<<"v">>)]
      [] raw = CfgNull -> [err |-> FALSE, v |-> NullV]
      [] raw = CfgList -> [err |-> FALSE, v |-> ListV(<<StrV(<<"v">>)>>)]
      [] raw = CfgBad -> [err |-> TRUE, v |-> NullV]

(***************************************************************************)
(* aValue[akey] with a string key: a dict gives the value or KeyError;     *)
(* a str, a list, an int and None give TypeError.                          *)
(***************************************************************************)
GetItem(aValue, akey) ==
    IF aValue.t = "map"
    THEN LET at == {i \in 1..Len(aValue.kv) : aValue.kv[i].k = akey}
         IN  IF at = {} THEN [exc |-> "KeyError", v |-> NullV]
             ELSE [exc |-> "none", v |-> aValue.kv[Min(at)].v]
    ELSE [exc |-> "TypeError", v |-> NullV]

\* Lines 137-141: the walk down the key list, stopped by the first exception.
RECURSIVE WalkKeys(_, _)
WalkKeys(aValue, keys) ==
    IF keys = <<>> THEN [exc |-> "none", v |-> aValue]
    ELSE LET got == GetItem(aValue, Head(keys))
         IN  IF got.exc # "none" THEN got ELSE WalkKeys(got.v, Tail(keys))

(***************************************************************************)
(* Lines 128-144: the value of one token.  The environment comes first;    *)
(* a KeyError of the walk prints the diagnostic and gives "".              *)
(***************************************************************************)
LookupValue(env, cfg, valueName) ==
    IF valueName \in DOMAIN env
    THEN [exc |-> "none", s |-> env[valueName], diag |-> FALSE]
    ELSE LET w == WalkKeys(cfg, keyList(valueName))
         IN  CASE w.exc = "none" ->
                    [exc |-> "none", s |-> Str(w.v), diag |-> FALSE]
               [] w.exc = "KeyError" ->
                    [exc |-> "none", s |-> EmptyStr, diag |-> TRUE]
               [] OTHER ->
                    [exc |-> w.exc, s |-> EmptyStr, diag |-> FALSE]

(***************************************************************************)
(* re.sub('\${' + valueName + '}', str(aValue), s), line 145.               *)
(*                                                                         *)
(* The token is pasted into the pattern unescaped, so it is read as a      *)
(* regular expression.  The model reads the tokens made of letters, digits *)
(* and dots: a letter matches itself, "." matches any character but a line *)
(* break, and a token of digits only makes "{n}" a repeat count of the     *)
(* "\$" before it, so the pattern is n dollar signs.  In every other token *)
(* "{" and "}" are literal.                                                *)
(***************************************************************************)
IsDigits(s) == s # <<>> /\ \A i \in 1..Len(s) : s[i] \in Digits

DigitVal(c) == CHOOSE n \in 0..9 : DigitChar(n) = c

RECURSIVE NumVal(_)
NumVal(s) ==
    IF s = <<>> THEN 0
    ELSE 10 * NumVal(SubSeq(s, 1, Len(s) - 1)) + DigitVal(s[Len(s)])

Lit(c) == [any |-> FALSE, c |-> c]
AnyChar == [any |-> TRUE, c |-> "."]

\* The compiled pattern: one element per character it matches.
SubPattern(valueName) ==
    IF IsDigits(valueName)
    THEN [k \in 1..NumVal(valueName) |-> Lit("$")]
    ELSE <<Lit("$"), Lit("{")>>
             \o [k \in 1..Len(valueName) |->
                   IF valueName[k] = "." THEN AnyChar ELSE Lit(valueName[k])]
             \o <<Lit("}")>>

MatchAt(pat, s, i) ==
    /\ i + Len(pat) - 1 =< Len(s)
    /\ \A k \in 1..Len(pat) :
          IF pat[k].any THEN s[i + k - 1] # NL ELSE s[i + k - 1] = pat[k].c

\* Every non-overlapping match, leftmost first, replaced by repl; an empty
\* pattern matches before every character and at the end.
RECURSIVE ReplaceFrom(_, _, _, _)
ReplaceFrom(pat, repl, s, i) ==
    IF i > Len(s) THEN (IF pat = <<>> THEN repl ELSE <<>>)
    ELSE IF MatchAt(pat, s, i)
         THEN IF pat = <<>>
              THEN repl \o <<s[i]>> \o ReplaceFrom(pat, repl, s, i + 1)
              ELSE repl \o ReplaceFrom(pat, repl, s, i + Len(pat))
         ELSE <<s[i]>> \o ReplaceFrom(pat, repl, s, i + 1)

(***************************************************************************)
(* The replacement is a template: a backslash starts an escape.  The model *)
(* reads the escapes of a letter, a backslash or a punctuation mark (not   *)
(* the group references \1..\9 and \g<..>): \n, \t, \r and \f give the     *)
(* control character, \\ one backslash, any other ASCII letter is the      *)
(* error "bad escape", as is a backslash that ends the template; before    *)
(* any other character the backslash stays.                                *)
(***************************************************************************)
RECURSIVE ExpandTemplate(_)
ExpandTemplate(repl) ==
    IF repl = <<>> THEN [err |-> FALSE, s |-> <<>>]
    ELSE IF Head(repl) # BSL
         THEN LET rest == ExpandTemplate(Tail(repl))
              IN  [err |-> rest.err, s |-> <<Head(repl)>> \o rest.s]
    ELSE IF Len(repl) = 1 THEN [err |-> TRUE, s |-> <<>>]
    ELSE LET c == repl[2]
             rest == ExpandTemplate(SubSeq(repl, 3, Len(repl)))
             put(x) == [err |-> rest.err, s |-> x \o rest.s]
         IN  CASE c = "n" -> put(<<NL>>)
               [] c = "t" -> put(<<"\t">>)
               [] c = "r" -> put(<<"\r">>)
               [] c = "f" -> put(<<"\f">>)
               [] c = "a" -> put(<<"BEL">>)
               [] c = "b" -> put(<<"BS">>)
               [] c = "v" -> put(<<"VT">>)
               [] c = BSL -> put(<<BSL>>)
               [] c \in AsciiLetters \ {"n", "t", "r", "f", "a", "b", "v"} ->
                    [err |-> TRUE, s |-> <<>>]
               [] OTHER -> put(<<BSL, c>>)

\* re.sub: the template is compiled first, also when nothing matches.
ReSub(valueName, repl, s) ==
    LET tpl == ExpandTemplate(repl)
    IN  IF tpl.err THEN [exc |-> "re.error", s |-> s]
        ELSE [exc |-> "none",
              s |-> ReplaceFrom(SubPattern(valueName), tpl.s, s, 1)]

(***************************************************************************)
(* Lines 127-146: the loop over the tokens findall gave.  Each token is    *)
(* looked up, then substituted into the string the earlier tokens left.    *)
(* The first exception that is not caught ends the loop and load.          *)
(***************************************************************************)
NoValueFor(valueName) == valueName

RECURSIVE SubstituteLoop(_, _, _, _)
SubstituteLoop(env, cfg, names, acc) ==
    IF names = <<>> THEN acc
    ELSE LET aValue == LookupValue(env, cfg, Head(names))
             stderr == IF aValue.diag
                       THEN Append(acc.stderr, NoValueFor(Head(names)))
                       ELSE acc.stderr
         IN  IF aValue.exc # "none"
             THEN [acc EXCEPT !.exc = aValue.exc]
             ELSE LET sub == ReSub(Head(names), aValue.s, acc.path)
                  IN  IF sub.exc # "none"
                      THEN [acc EXCEPT !.exc = sub.exc, !.stderr = stderr]
                      ELSE SubstituteLoop(env, cfg, Tail(names),
                               [acc EXCEPT !.path = sub.s, !.stderr = stderr])

(***************************************************************************)
(* Lines 118-148, the substitution step of load.  os.environ["config"]     *)
(* raises KeyError when the variable is not set, and the handler of line   *)
(* 147 then leaves the pathname as it was.  An exception of yaml.load is   *)
(* no KeyError and leaves load.                                            *)
(***************************************************************************)
Substitute(env, path) ==
    LET start == [exc |-> "none", path |-> path, stderr |-> <<>>]
    IN  IF ConfigName \notin DOMAIN env THEN start
        ELSE LET cfg == varsFromYamlConfig(env[ConfigName])
             IN  IF cfg.err THEN [start EXCEPT !.exc = "YAMLError"]
                 ELSE SubstituteLoop(env, cfg.v, valueNames(path), start)

(***************************************************************************)
(* The inputs of SpecSubst: environments and pathnames.                    *)
(***************************************************************************)
Placeholder(valueName) == <<"$", "{">> \o valueName \o <<"}">>

TokF == <<"F">>
TokAB == <<"a", ".", "b">>
TokAXB == <<"a", "X", "b">>
TokA == <<"a">>
TokM == <<"m">>
TokOne == <<"1">>
TokW == <<"W">>
Tokens == {TokF, TokAB, TokAXB, TokA, TokM, TokOne, TokW}

Segments ==
    {<<"c", "/">>, <<".", "y", "m", "l">>} \cup {Placeholder(t) : t \in Tokens}

Pathnames ==
    {Concat(ps) : ps \in UNION {[1..n -> Segments] : n \in 1..MaxParts}}

NoEnv == [n \in {} |-> <<>>]
ShellVars ==
    {NoEnv,
     TokF :> <<"b">>,
     (TokF :> <<"b">>) @@ (TokAXB :> <<"w">>),
     TokW :> <<BSL, "n">>,
     TokW :> <<"c", BSL, "d">>}

Environments ==
    ShellVars \cup {(ConfigName :> raw) @@ e : raw \in ConfigTexts, e \in ShellVars}

\* self._base_dir: None, or a string.
NoBaseDir == [none |-> TRUE, s |-> <<>>]
BaseDir(s) == [none |-> FALSE, s |-> s]

NoSubst == [exc |-> "none", path |-> <<>>, stderr |-> <<>>]
NoOutcome == [t |-> "none"]
NoInstance == [id |-> 0]
NoTag == [given |-> FALSE, s |-> <<>>]
NoCall ==
    [n |-> 0, tag |-> NoTag, loader_class |-> "None", raised |-> FALSE,
     instance |-> NoInstance]

InitSubst ==
    /\ environ \in Environments
    /\ pathname \in Pathnames
    /\ phase = "idle"
    /\ sres = NoSubst
    /\ base_dir = NoBaseDir
    /\ stack = <<>>
    /\ openFiles = {}
    /\ outcome = NoOutcome
    /\ registry = <<>>
    /\ regCall = NoCall
    /\ mutated = FALSE

\* load, as far as line 148.
LoadSubstitute ==
    /\ phase = "idle"
    /\ phase' = "substituted"
    /\ sres' = Substitute(environ, pathname)
    /\ UNCHANGED <<environ, base_dir, stack, openFiles, outcome,
                   pathname, registry, regCall, mutated>>

NextSubst == LoadSubstitute

SpecSubst == InitSubst /\ [][NextSubst]_vars

(***************************************************************************)
(* re.match(WILDCARDS_REGEX, pathname), lines 24 and 154:                  *)
(*     ^.*(\*|\?|\[!?.+\]).*$                                              *)
(* "." matches no line break, and "$" matches at the end or before a line  *)
(* break that ends the string.  The bracket needs one character or more    *)
(* between "[" and "]" (a "!" alone counts).                               *)
(***************************************************************************)
NoLineBreak(s, i, j) == \A k \in i..j : s[k] # NL

WILDCARDS_REGEX(p) ==
    \E i \in 1..Len(p) :
       /\ NoLineBreak(p, 1, i - 1)
       /\ \E e \in i..Len(p) :
             /\ \/ e = i /\ p[i] \in {"*", "?"}
                \/ p[i] = "[" /\ e >= i + 2 /\ p[e] = "]"
                     /\ NoLineBreak(p, i + 1, e - 1)
             /\ \/ NoLineBreak(p, e + 1, Len(p))
                \/ e < Len(p) /\ p[Len(p)] = NL
                     /\ NoLineBreak(p, e + 1, Len(p) - 1)

(***************************************************************************)
(* The attribute _base_dir is None (NoBaseDir) or a string (BaseDir),      *)
(* which may be empty.  Truthy is the test of line 152, false of None and  *)
(* of "".  PathJoin is os.path.join of line 153 on two strings; JoinBase   *)
(* is lines 152-153 when both lines read the same value of the attribute.  *)
(***************************************************************************)
Truthy(base) == ~base.none /\ base.s # <<>>

PathJoin(base, p) ==
    IF base = <<>> THEN p
    ELSE IF p # <<>> /\ p[1] = "/" THEN p
    ELSE IF base[Len(base)] = "/" THEN base \o p
    ELSE base \o <<"/">> \o p

JoinBase(base, p) == IF Truthy(base) THEN PathJoin(base.s, p) ELSE p

(***************************************************************************)
(* path.lower().endswith(('.yaml', '.yml')), line 170.                     *)
(***************************************************************************)
UpperCase ==
    <<"A", "B", "C", "D", "E", "F", "G", "H", "I", "J", "K", "L", "M",
      "N", "O", "P", "Q", "R", "S", "T", "U", "V", "W", "X", "Y", "Z">>
LowerCase ==
    <<"a", "b", "c", "d", "e", "f", "g", "h", "i", "j", "k", "l", "m",
      "n", "o", "p", "q", "r", "s", "t", "u", "v", "w", "x", "y", "z">>

LowerChar(c) ==
    IF \E i \in 1..Len(UpperCase) : UpperCase[i] = c
    THEN LowerCase[CHOOSE i \in 1..Len(UpperCase) : UpperCase[i] = c]
    ELSE c

Lower(s) == [i \in 1..Len(s) |-> LowerChar(s[i])]

ExtYaml == <<".", "y", "a", "m", "l">>
ExtYml == <<".", "y", "m", "l">>

IsYamlPathCaseSensitive(path) == EndsWith(path, ExtYaml) \/ EndsWith(path, ExtYml)

IsYamlPath(path) ==
    \E lower \in {Lower(path)} :
       EndsWith(lower, ExtYaml) \/ EndsWith(lower, ExtYml)

(***************************************************************************)
(* The file system load reads.  FS lists the entries in the order the      *)
(* directory listing gives them, a directory before what it holds.  The    *)
(* text of a file is named, not spelled; u.yml is a file the process may   *)
(* not read.                                                               *)
(***************************************************************************)
File(path, text) ==
    [path |-> path, kind |-> "file", readable |-> TRUE, text |-> text]
Dir(path) ==
    [path |-> path, kind |-> "dir", readable |-> TRUE, text |-> ""]

P_a == <<"a", ".", "y", "m", "l">>
P_b == <<"b", ".", "y", "m", "l">>
P_B == <<"B", ".", "Y", "M", "L">>
P_t == <<"t", ".", "t", "x", "t">>
P_d == <<"d">>
P_x == <<"x", ".", "y", "m", "l">>
P_dx == <<"d", "/", "x", ".", "y", "m", "l">>
P_g == <<"g", ".", "y", "m", "l">>
P_f == <<"f", ".", "y", "m", "l">>
P_p == <<"p", ".", "y", "m", "l">>
P_q == <<"q", ".", "y", "m", "l">>
P_s == <<"s", ".", "y", "m", "l">>
P_e == <<"e", ".", "y", "m", "l">>
P_u == <<"u", ".", "y", "m", "l">>
P_c == <<"c", ".", "y", "a", "m", "l">>
P_yml == <<"y", "m", "l">>
P_ab == <<"[", "a", "b", "]", ".", "y", "m", "l">>

FS ==
    <<File(P_a, "Ta"), File(P_b, "Tb"), File(P_B, "Tb"), File(P_t, "Ts"),
      Dir(P_d), File(P_dx, "Tz"), File(P_c, "Tz"), File(P_yml, "Tb"),
      File(P_g, "Tg"), File(P_f, "Tf"), File(P_p, "Tp"), File(P_q, "Tq"),
      File(P_s, "Ts"), File(P_e, "Te"),
      [File(P_u, "Tb") EXCEPT !.readable = FALSE]>>

Entries(path) == {i \in 1..Len(FS) : FS[i].path = path}

\* os.path.isfile(path), line 161
isfile(path) == \E i \in Entries(path) : FS[i].kind = "file"

\* Whether io.open(path) gives a handle (lines 162, 165); if not it raises
\* an IOError: no such file, a directory, or no permission.
CanOpen(path) == \E i \in Entries(path) : FS[i].kind = "file" /\ FS[i].readable

FileText(path) == FS[Min(Entries(path))].text

(***************************************************************************)
(* iglob(pathname), lines 157-159, for recursive=False (the default of     *)
(* load), where "**" is two "*".  A pattern and a path match segment by    *)
(* segment; a segment matches as fnmatch does: "*" any run, "?" any one    *)
(* character, "[seq]" and "[!seq]" a class of characters (ranges are not   *)
(* modelled), a "[" that no "]" closes itself.  A name that starts with a  *)
(* dot matches only a segment that starts with one.                        *)
(***************************************************************************)
\* Where the class that opens at pat[1] = "[" closes, or 0.
ClassEnd(pat) ==
    LET n == Len(pat)
        j1 == IF 2 =< n /\ pat[2] = "!" THEN 3 ELSE 2
        j2 == IF j1 =< n /\ pat[j1] = "]" THEN j1 + 1 ELSE j1
        e == FirstIn(pat, j2, {"]"})
    IN  IF e > n THEN 0 ELSE e

InClass(stuff, c) ==
    IF stuff[1] = "!"
    THEN \A k \in 2..Len(stuff) : stuff[k] # c
    ELSE \E k \in 1..Len(stuff) : stuff[k] = c

RECURSIVE fnmatch(_, _)
fnmatch(name, pat) ==
    IF pat = <<>> THEN name = <<>>
    ELSE CASE pat[1] = "*" ->
                \E k \in 0..Len(name) :
                   fnmatch(SubSeq(name, k + 1, Len(name)), Tail(pat))
           [] pat[1] = "?" -> name # <<>> /\ fnmatch(Tail(name), Tail(pat))
           [] pat[1] = "[" ->
                LET e == ClassEnd(pat)
                IN  /\ name # <<>>
                    /\ IF e = 0
                       THEN name[1] = "[" /\ fnmatch(Tail(name), Tail(pat))
                       ELSE /\ InClass(SubSeq(pat, 2, e - 1), name[1])
                            /\ fnmatch(Tail(name), SubSeq(pat, e + 1, Len(pat)))
           [] OTHER ->
                name # <<>> /\ name[1] = pat[1] /\ fnmatch(Tail(name), Tail(pat))

SegmentMatch(name, pat) ==
    /\ fnmatch(name, pat)
    /\ (name # <<>> /\ name[1] = ".") => (pat # <<>> /\ pat[1] = ".")

PathMatch(path, pattern) ==
    LET ns == SplitOn(path, "/")
        ps == SplitOn(pattern, "/")
    IN  /\ Len(ns) = Len(ps)
        /\ \A k \in 1..Len(ns) : SegmentMatch(ns[k], ps[k])

\* The paths iglob yields, in the order of the listing.
iglob(pattern) ==
    LET hit(entry) == PathMatch(entry.path, pattern)
        hits == SelectSeq(FS, hit)
    IN  [k \in 1..Len(hits) |-> hits[k].path]

(***************************************************************************)
(* yaml.load of a file's text, as far as the constructor is concerned: an  *)
(* error, or the nodes of the document in the order they are constructed.  *)
(* A document is one node (root) or a sequence of nodes; a node is a       *)
(* scalar or carries the !include tag in one of its three forms.           *)
(***************************************************************************)
Scalar(v) == [tag |-> "plain", v |-> v]
IncScalar(p) == [tag |-> "!include", kind |-> "scalar", value |-> p]
IncSequence(ps) == [tag |-> "!include", kind |-> "sequence", value |-> ps]
IncMapping(p) == [tag |-> "!include", kind |-> "mapping", value |-> p]

Document(root, nodes) == [err |-> FALSE, root |-> root, nodes |-> nodes]
NotYaml == [err |-> TRUE, root |-> TRUE, nodes |-> <<>>]

ParseYamlText(text) ==
    CASE text = "Ta" -> Document(FALSE, <<Scalar("x"), IncScalar(P_b)>>)
      [] text = "Tb" -> Document(TRUE, <<Scalar("y")>>)
      [] text = "Tz" -> Document(TRUE, <<Scalar("z")>>)
      [] text = "Ts" -> Document(TRUE, <<IncScalar(P_s)>>)
      [] text = "Tg" -> Document(TRUE, <<IncMapping(P_ab)>>)
      [] text = "Tf" -> Document(FALSE, <<IncSequence(<<P_b>>), IncScalar(P_e)>>)
      [] text = "Tp" -> Document(TRUE, <<IncScalar(P_q)>>)
      [] text = "Tq" -> Document(FALSE, <<IncScalar(P_p)>>)
      [] text = "Te" -> NotYaml

(***************************************************************************)
(* The values load returns.  A YAML sequence and the result of a wildcard  *)
(* are both Python lists.                                                  *)
(***************************************************************************)
ScalarVal(v) == [t |-> "scalar", sv |-> v]
TextVal(text) == [t |-> "text", tx |-> text]
ListVal(xs) == [t |-> "list", xs |-> xs]
NoValue == [t |-> "none"]

(***************************************************************************)
(* __call__, lines 59-70: the arguments of load from the node.  A scalar   *)
(* node gives the pathname, a sequence node the positional arguments, a    *)
(* mapping node the keyword arguments; load without a pathname is a        *)
(* TypeError.                                                              *)
(***************************************************************************)
IncludeArgs(node) ==
    CASE node.kind = "scalar" -> [exc |-> "none", pathname |-> node.value]
      [] node.kind = "sequence" ->
           IF node.value = <<>> THEN [exc |-> "TypeError", pathname |-> <<>>]
           ELSE [exc |-> "none", pathname |-> node.value[1]]
      [] node.kind = "mapping" -> [exc |-> "none", pathname |-> node.value]
      [] OTHER -> [exc |-> "TypeError", pathname |-> <<>>]

(***************************************************************************)
(* The machine of Spec.  A frame is one active call of load: pc says where *)
(* it stands, arg is its pathname argument, wild whether line 154 matched, *)
(* matches what the iterator of line 160 has yet to yield, result the list *)
(* of line 155, path the file at hand, nodes and acc the nodes yaml.load   *)
(* has yet to construct and the values it constructed, ret and exc what    *)
(* the frame returns or raises; loader is the class of the loader argument *)
(* and parser the class line 171 gave yaml.load for the file at hand.  The *)
(* handle a frame holds is named by the frame's depth and the path it      *)
(* opened.                                                                 *)
(***************************************************************************)
NewFrame(loader, arg) ==
    [pc |-> "load", loader |-> loader, parser |-> "None",
     arg |-> arg, wild |-> FALSE, matches |-> <<>>,
     result |-> <<>>, path |-> <<>>, root |-> TRUE, nodes |-> <<>>,
     acc |-> <<>>, ret |-> NoValue, exc |-> "none"]

Depth == Len(stack)
Top == stack[Depth]
SetTop(f) == [stack EXCEPT ![Depth] = f]
Handle(d, path) == [depth |-> d, path |-> path]

Value(v) == [t |-> "value", v |-> v]
Error(exc) == [t |-> "error", exc |-> exc]

\* The include nodes the top-level documents of the model carry.
TopPathnames ==
    {P_a, P_b, P_B, P_t, P_d, P_x, P_g, P_f, P_p, P_s, P_e, P_u, P_c, P_yml,
     P_ab,
     <<"m", ".", "y", "m", "l">>,
     <<"/">> \o P_b,
     <<"[", "b", "f", "]">> \o ExtYml,
     <<"[", "b", "B", "]", ".", "*">>,
     <<"[", "!", "]">>,
     <<"[", "]">>,
     <<"?", ".", "t", "x", "t">>,
     <<"t", ".", "t", "x", "?">>,
     <<"z", "*">>,
     <<"u", "*">>,
     <<"*">>,
     <<"d", "/", "*">>,
     <<"a", NL, "*">>,
     Placeholder(TokF) \o ExtYml,
     Placeholder(TokM) \o P_b,
     Placeholder(TokAB) \o <<"*">>}

Requests ==
    {IncScalar(p) : p \in TopPathnames}
      \cup {IncSequence(<<>>), IncSequence(<<P_a>>), IncMapping(P_ab)}

BaseDirs ==
    {NoBaseDir, BaseDir(<<>>), BaseDir(<<"d">>), BaseDir(<<"d", "/">>),
     BaseDir(<<"d", "*">>)}

\* The classes of the loaders that parse the top-level documents.
ParseLoaders == {"Loader", "SafeLoader"}

MainEnvironments ==
    {NoEnv, (ConfigName :> CfgNested) @@ (TokF :> <<"b">>)}

Init ==
    /\ environ \in MainEnvironments
    /\ base_dir \in BaseDirs
    /\ phase = "idle"
    /\ stack = <<>>
    /\ openFiles = {}
    /\ outcome = NoOutcome
    /\ pathname = <<>>
    /\ sres = NoSubst
    /\ registry = <<>>
    /\ regCall = NoCall
    /\ mutated = FALSE

\* A loader of class loader_class meets an !include node of the top-level
\* document: __call__.
Call(loader_class, node) ==
    /\ phase = "idle"
    /\ LET a == IncludeArgs(node)
       IN  IF a.exc # "none"
           THEN /\ phase' = "failed"
                /\ outcome' = Error(a.exc)
                /\ UNCHANGED <<stack, pathname>>
           ELSE /\ phase' = "running"
                /\ stack' = <<NewFrame(loader_class, a.pathname)>>
                /\ pathname' = a.pathname
                /\ UNCHANGED outcome
    /\ UNCHANGED <<environ, base_dir, openFiles, sres, registry, regCall, mutated>>

\* The pathnames load can be called with: those of the requests and those
\* of the !include nodes in the files.
IncludeNodes ==
    Requests \cup
    UNION {{d.nodes[i] : i \in 1..Len(d.nodes)} :
             d \in {ParseYamlText(FS[k].text) :
                      k \in {j \in 1..Len(FS) : FS[j].kind = "file"}}}

IncludePathnames ==
    {IncludeArgs(node).pathname :
       node \in {n \in IncludeNodes :
                   n.tag = "!include" /\ IncludeArgs(n).exc = "none"}}

\* Substitute over the environments and the pathnames of the model, each
\* computed once.
Substituted ==
    [env \in MainEnvironments |->
       [arg \in IncludePathnames |-> Substitute(env, arg)]]

\* load, lines 118-152: the substitution, then the test of _base_dir.
LoadBegin ==
    /\ phase = "running" /\ Top.pc = "load"
    /\ UNCHANGED <<environ, base_dir, phase, openFiles, outcome,
                   pathname, sres, registry, regCall, mutated>>
    /\ LET sub == Substituted[environ][Top.arg]
       IN  stack' = SetTop(
             IF sub.exc # "none"
             THEN [Top EXCEPT !.pc = "raise", !.exc = sub.exc]
             ELSE [Top EXCEPT !.path = sub.path,
                              !.pc = IF Truthy(base_dir) THEN "join"
                                     ELSE "match"])

\* Line 153 reads _base_dir again: os.path.join raises TypeError when the
\* attribute has become None since the test of line 152, and gives the
\* pathname as it is when the attribute has become "".
Join ==
    /\ phase = "running" /\ Top.pc = "join"
    /\ UNCHANGED <<environ, base_dir, phase, openFiles, outcome,
                   pathname, sres, registry, regCall, mutated>>
    /\ stack' = SetTop(
         IF base_dir.none
         THEN [Top EXCEPT !.pc = "raise", !.exc = "TypeError"]
         ELSE [Top EXCEPT !.pc = "match",
                          !.path = PathJoin(base_dir.s, Top.path)])

\* Lines 154-159: the wildcard test and iglob.
Match ==
    /\ phase = "running" /\ Top.pc = "match"
    /\ UNCHANGED <<environ, base_dir, phase, openFiles, outcome,
                   pathname, sres, registry, regCall, mutated>>
    /\ stack' = SetTop(
         IF WILDCARDS_REGEX(Top.path)
         THEN [Top EXCEPT !.pc = "iter", !.wild = TRUE,
                          !.matches = iglob(Top.path), !.result = <<>>]
         ELSE [Top EXCEPT !.pc = "open", !.wild = FALSE])

\* Lines 160-161 and 164: the next path of the iterator, kept if it is a
\* file; the result list when the iterator is exhausted.
KeepEntry(path) == isfile(path)

IterNext ==
    /\ phase = "running" /\ Top.pc = "iter"
    /\ UNCHANGED <<environ, base_dir, phase, openFiles, outcome,
                   pathname, sres, registry, regCall, mutated>>
    /\ stack' = SetTop(
         IF Top.matches = <<>>
         THEN [Top EXCEPT !.pc = "return", !.ret = ListVal(Top.result)]
         ELSE [Top EXCEPT !.path = Head(Top.matches),
                          !.matches = Tail(Top.matches),
                          !.pc = IF KeepEntry(Head(Top.matches))
                                 THEN "open" ELSE "iter"])

\* io.open, lines 162 and 165.
Open ==
    /\ phase = "running" /\ Top.pc = "open"
    /\ UNCHANGED <<environ, base_dir, phase, outcome,
                   pathname, sres, registry, regCall, mutated>>
    /\ IF CanOpen(Top.path)
       THEN /\ openFiles' = openFiles \cup {Handle(Depth, Top.path)}
            /\ stack' = SetTop([Top EXCEPT !.pc = "loadYaml"])
       ELSE /\ stack' = SetTop([Top EXCEPT !.pc = "raise", !.exc = "IOError"])
            /\ UNCHANGED openFiles

\* loadYaml, lines 169-173: yaml.load composes the document, or file.read().
LoadYaml ==
    /\ phase = "running" /\ Top.pc = "loadYaml"
    /\ UNCHANGED <<environ, base_dir, phase, openFiles, outcome,
                   pathname, sres, registry, regCall, mutated>>
    /\ \E text \in {FileText(Top.path)} : \E doc \in {ParseYamlText(text)} :
           stack' = SetTop(
             IF IsYamlPath(Top.path)
             THEN IF doc.err
                  THEN [Top EXCEPT !.pc = "exit", !.exc = "YAMLError",
                                   !.parser = Top.loader]
                  ELSE [Top EXCEPT !.pc = "construct", !.root = doc.root,
                                   !.nodes = doc.nodes, !.acc = <<>>,
                                   !.parser = Top.loader]
             ELSE [Top EXCEPT !.pc = "exit", !.ret = TextVal(text)])

\* yaml.load constructs the next node of the document (line 171).  An
\* !include node calls __call__ and load again, one call deeper and with the
\* loader that parses this document, unless the interpreter's recursion
\* limit is reached.
Construct ==
    /\ phase = "running" /\ Top.pc = "construct"
    /\ UNCHANGED <<environ, base_dir, phase, openFiles, outcome,
                   pathname, sres, registry, regCall, mutated>>
    /\ IF Top.nodes = <<>>
       THEN stack' = SetTop([Top EXCEPT !.pc = "exit",
                !.ret = IF Top.root THEN Top.acc[1] ELSE ListVal(Top.acc)])
       ELSE LET node == Head(Top.nodes)
            IN  IF node.tag # "!include"
                THEN stack' = SetTop([Top EXCEPT
                         !.acc = Append(Top.acc, ScalarVal(node.v)),
                         !.nodes = Tail(Top.nodes)])
                ELSE IF Depth >= RecursionLimit
                THEN stack' = SetTop([Top EXCEPT !.pc = "exit",
                                                 !.exc = "RecursionError"])
                ELSE LET a == IncludeArgs(node)
                     IN  IF a.exc # "none"
                         THEN stack' = SetTop([Top EXCEPT !.pc = "exit",
                                                          !.exc = a.exc])
                         ELSE stack' = Append(SetTop([Top EXCEPT !.pc = "await"]),
                                              NewFrame(Top.parser, a.pathname))

\* The end of a with block, lines 162-163 and 165-166: the file is closed,
\* whether the block ends with a value or with an exception.
ClosedOnSuccessOnly(files, h, exc) == IF exc = "none" THEN files \ {h} ELSE files
Closed(files, h, exc) == files \ {h}

\* result.append, line 163
AppendResult(result, v) == Append(result, v)

WithExit ==
    /\ phase = "running" /\ Top.pc = "exit"
    /\ UNCHANGED <<environ, base_dir, phase, outcome,
                   pathname, sres, registry, regCall, mutated>>
    /\ openFiles' = Closed(openFiles, Handle(Depth, Top.path), Top.exc)
    /\ stack' = SetTop(
         IF Top.exc # "none" THEN [Top EXCEPT !.pc = "raise"]
         ELSE IF Top.wild
         THEN [Top EXCEPT !.pc = "iter", !.ret = NoValue,
                          !.result = AppendResult(Top.result, Top.ret)]
         ELSE [Top EXCEPT !.pc = "return"])

\* load returns (lines 164, 166): to the parser of the including file, which
\* goes on with the next node, or to the top-level parse.
Return ==
    /\ phase = "running" /\ Top.pc = "return"
    /\ UNCHANGED <<environ, base_dir, openFiles, pathname, sres, registry, regCall, mutated>>
    /\ IF Depth = 1
       THEN /\ stack' = <<>>
            /\ phase' = "done"
            /\ outcome' = Value(Top.ret)
       ELSE LET caller == stack[Depth - 1]
            IN  /\ stack' = [SubSeq(stack, 1, Depth - 1) EXCEPT ![Depth - 1] =
                               [caller EXCEPT !.pc = "construct",
                                              !.acc = Append(caller.acc, Top.ret),
                                              !.nodes = Tail(caller.nodes)]]
                /\ UNCHANGED <<phase, outcome>>

\* An exception leaves load: it passes through yaml.load of the including
\* file into that file's with block, or reaches the caller of the parse.
RetryInclude(caller, exc) == [caller EXCEPT !.pc = "construct"]
RaisedInto(caller, exc) == [caller EXCEPT !.pc = "exit", !.exc = exc]

Raise ==
    /\ phase = "running" /\ Top.pc = "raise"
    /\ UNCHANGED <<environ, base_dir, openFiles, pathname, sres, registry, regCall, mutated>>
    /\ IF Depth = 1
       THEN /\ stack' = <<>>
            /\ phase' = "failed"
            /\ outcome' = Error(Top.exc)
       ELSE /\ stack' = [SubSeq(stack, 1, Depth - 1) EXCEPT ![Depth - 1] =
                           RaisedInto(stack[Depth - 1], Top.exc)]
            /\ UNCHANGED <<phase, outcome>>

Run ==
    \/ LoadBegin
    \/ Join
    \/ Match
    \/ IterNext
    \/ Open
    \/ LoadYaml
    \/ Construct
    \/ WithExit
    \/ Return
    \/ Raise

\* __call__ has returned, line 70, or raised: the parser has the value or the
\* error of the include, and the constructor waits for the next node.
Returned ==
    /\ phase \in {"done", "failed"}
    /\ phase' = "idle"
    /\ outcome' = NoOutcome
    /\ pathname' = <<>>
    /\ mutated' = FALSE
    /\ UNCHANGED <<environ, base_dir, stack, openFiles, sres, registry, regCall>>

\* The setter of the property base_dir, lines 80-82.  Nothing guards it:
\* another thread, or a callback the parser runs, may call it between any
\* two steps of load, which reads the attribute anew at lines 152 and 153
\* of every call.  (The setter of encoding, lines 92-94, changes the
\* encoding files are decoded with, which is no part of the state here.)
set_base_dir(value) ==
    /\ base_dir' = value
    /\ mutated' = (mutated \/ (phase # "idle" /\ value # base_dir))
    /\ UNCHANGED <<environ, phase, stack, openFiles, outcome,
                   pathname, sres, registry, regCall>>

Next ==
    \/ \E loader_class \in ParseLoaders, node \in Requests :
          Call(loader_class, node)
    \/ Run
    \/ Returned
    \/ \E value \in BaseDirs : set_base_dir(value)

Spec == Init /\ [][Next]_vars

\* load runs to its end once called: the interpreter does not stop.
LiveSpec == Spec /\ WF_vars(Run)

(***************************************************************************)
(* add_to_loader_class, lines 176-226, and the constructor tables of the   *)
(* loader classes (yaml_constructors: tag -> constructor), which           *)
(* yaml.add_constructor writes.  Without a loader class PyYAML 5 adds the  *)
(* constructor to Loader, FullLoader and UnsafeLoader.                     *)
(***************************************************************************)
LoaderClasses == {"Loader", "FullLoader", "UnsafeLoader", "SafeLoader"}
DefaultLoaders == {"Loader", "FullLoader", "UnsafeLoader"}
DEFAULT_TAG_NAME == <<"!", "i", "n", "c", "l", "u", "d", "e">>

Whitespace == {" ", "\t", NL, "\r", "\f", "VT"}

RECURSIVE lstrip(_), rstrip(_)
lstrip(s) ==
    IF s # <<>> /\ s[1] \in Whitespace THEN lstrip(Tail(s)) ELSE s
rstrip(s) ==
    IF s # <<>> /\ s[Len(s)] \in Whitespace
    THEN rstrip(SubSeq(s, 1, Len(s) - 1)) ELSE s

\* Lines 214-218: None becomes '', the tag is stripped, '' becomes the default.
TagUnstripped(tag) ==
    LET given == IF tag.given THEN tag.s ELSE <<>>
    IN  IF given = <<>> THEN DEFAULT_TAG_NAME ELSE given
TagName(tag) ==
    LET stripped == lstrip(rstrip(IF tag.given THEN tag.s ELSE <<>>))
    IN  IF stripped = <<>> THEN DEFAULT_TAG_NAME ELSE stripped

\* Lines 222-225: the classes yaml.add_constructor writes to.
TargetLoaders(loader_class) ==
    IF loader_class = "None" THEN DefaultLoaders ELSE {loader_class}

TagInc == <<"!", "i", "n", "c">>
TagArguments ==
    {NoTag} \cup
    {[given |-> TRUE, s |-> s] :
        s \in {<<>>, <<" ", "\t">>, DEFAULT_TAG_NAME, TagInc,
               <<" ">> \o TagInc \o <<" ">>, <<"i", "n", "c">>,
               <<"i", "!">>}}

InitReg ==
    /\ registry = [L \in LoaderClasses |-> [tg \in {} |-> NoInstance]]
    /\ regCall = NoCall
    /\ environ = NoEnv
    /\ base_dir = NoBaseDir
    /\ phase = "idle"
    /\ stack = <<>>
    /\ openFiles = {}
    /\ outcome = NoOutcome
    /\ pathname = <<>>
    /\ sres = NoSubst
    /\ mutated = FALSE

add_to_loader_class(loader_class, tag) ==
    /\ regCall.n < MaxRegs
    /\ LET name == TagName(tag)
           instance == [id |-> regCall.n + 1]
           call == [n |-> regCall.n + 1, tag |-> tag,
                    loader_class |-> loader_class, raised |-> FALSE,
                    instance |-> instance]
       IN  IF ~StartsWith(name, <<"!">>)
           THEN /\ regCall' = [call EXCEPT !.raised = TRUE,
                                           !.instance = NoInstance]
                /\ UNCHANGED registry
           ELSE /\ regCall' = call
                /\ registry' =
                     [L \in LoaderClasses |->
                        IF L \in TargetLoaders(loader_class)
                        THEN (name :> instance) @@ registry[L]
                        ELSE registry[L]]
    /\ UNCHANGED <<environ, base_dir, phase, stack, openFiles, outcome,
                   pathname, sres, mutated>>

NextReg ==
    \E loader_class \in LoaderClasses \cup {"None"}, tag \in TagArguments :
       add_to_loader_class(loader_class, tag)

SpecReg == InitReg /\ [][NextReg]_vars

(***************************************************************************)
(* What the claims speak of, stated apart from the operators above.        *)
(***************************************************************************)
\* s with every occurrence of the literal text ${valueName} replaced by val.
RECURSIVE LiteralReplaceFrom(_, _, _, _)
LiteralReplaceFrom(s, valueName, val, i) ==
    LET ph == Placeholder(valueName)
    IN  IF i > Len(s) THEN <<>>
        ELSE IF i + Len(ph) - 1 =< Len(s) /\ SubSeq(s, i, i + Len(ph) - 1) = ph
             THEN val \o LiteralReplaceFrom(s, valueName, val, i + Len(ph))
             ELSE <<s[i]>> \o LiteralReplaceFrom(s, valueName, val, i + 1)

LiteralReplace(s, valueName, val) == LiteralReplaceFrom(s, valueName, val, 1)

\* The pathnames of the model whose placeholders all carry a token of toks,
\* with one placeholder at least.
PathnamesOver(toks) ==
    LET segs == {<<"c", "/">>, <<".", "y", "m", "l">>}
                   \cup {Placeholder(t) : t \in toks}
        all == {Concat(ps) : ps \in UNION {[1..n -> segs] : n \in 1..MaxParts}}
    IN  {p \in all : \E i \in 1..Len(p) : p[i] = "$"}

ConfigSet == ConfigName \in DOMAIN environ
ConfigParses == ConfigSet /\ environ[ConfigName] # CfgBad
ConfigIsMapping ==
    ConfigSet /\ environ[ConfigName] \in {CfgNested, CfgInt, CfgFlat}

\* Whether the keys lead through mappings only, down to a value.
RECURSIVE IsKeyPath(_, _)
IsKeyPath(v, keys) ==
    \/ keys = <<>>
    \/ /\ v.t = "map"
       /\ \E i \in 1..Len(v.kv) :
             v.kv[i].k = Head(keys) /\ IsKeyPath(v.kv[i].v, Tail(keys))

Unresolvable(valueName) ==
    /\ valueName \notin DOMAIN environ
    /\ ~IsKeyPath(varsFromYamlConfig(environ[ConfigName]).v,
                  SplitOn(valueName, "."))

\* Whether s holds a "*", a "?" or a bracketed character class.
HasWildcard(s) ==
    \E i \in 1..Len(s) :
       \/ s[i] \in {"*", "?"}
       \/ s[i] = "[" /\ \E j \in (i + 2)..Len(s) : s[j] = "]"

\* Whether path ends in ext, letters compared without regard to case.
EndsWithIgnoringCase(path, ext) ==
    /\ Len(path) >= Len(ext)
    /\ \A k \in 1..Len(ext) :
          LET c == path[Len(path) - Len(ext) + k]
          IN  \/ c = ext[k]
              \/ \E j \in 1..Len(LowerCase) :
                    LowerCase[j] = ext[k] /\ UpperCase[j] = c

HasYamlExtension(path) ==
    EndsWithIgnoringCase(path, ExtYaml) \/ EndsWithIgnoringCase(path, ExtYml)

(***************************************************************************)
(* The value an include stands for, by recursion over the files: a YAML    *)
(* file gives its document with every !include in it resolved, any other   *)
(* file its text, a wildcard the list of its files' values.  d is the       *)
(* depth of the call of load.                                               *)
(***************************************************************************)
Ok(v) == [ok |-> TRUE, v |-> v]
Fail(exc) == [ok |-> FALSE, exc |-> exc]

RECURSIVE RefLoad(_, _), RefFile(_, _), RefNodes(_, _), RefFiles(_, _)
RefLoad(arg, d) ==
    LET sub == Substitute(environ, arg)
        p == JoinBase(base_dir, sub.path)
    IN  IF sub.exc # "none" THEN Fail(sub.exc)
        ELSE IF WILDCARDS_REGEX(p)
        THEN LET vs == RefFiles(SelectSeq(iglob(p), isfile), d)
             IN  IF vs.ok THEN Ok(ListVal(vs.v)) ELSE vs
        ELSE RefFile(p, d)
RefFile(path, d) ==
    IF ~CanOpen(path) THEN Fail("IOError")
    ELSE IF HasYamlExtension(path)
    THEN LET doc == ParseYamlText(FileText(path))
         IN  IF doc.err THEN Fail("YAMLError")
             ELSE LET vs == RefNodes(doc.nodes, d)
                  IN  IF ~vs.ok THEN vs
                      ELSE Ok(IF doc.root THEN vs.v[1] ELSE ListVal(vs.v))
    ELSE Ok(TextVal(FileText(path)))
RefNodes(nodes, d) ==
    IF nodes = <<>> THEN Ok(<<>>)
    ELSE LET node == Head(nodes)
             first ==
               IF node.tag # "!include" THEN Ok(ScalarVal(node.v))
               ELSE IF d >= RecursionLimit THEN Fail("RecursionError")
               ELSE LET a == IncludeArgs(node)
                    IN  IF a.exc # "none" THEN Fail(a.exc)
                        ELSE RefLoad(a.pathname, d + 1)
         IN  IF ~first.ok THEN first
             ELSE LET rest == RefNodes(Tail(nodes), d)
                  IN  IF ~rest.ok THEN rest ELSE Ok(<<first.v>> \o rest.v)
RefFiles(paths, d) ==
    IF paths = <<>> THEN Ok(<<>>)
    ELSE LET first == RefFile(Head(paths), d)
         IN  IF ~first.ok THEN first
             ELSE LET rest == RefFiles(Tail(paths), d)
                  IN  IF ~rest.ok THEN rest ELSE Ok(<<first.v>> \o rest.v)

Ended == phase \in {"done", "failed"}

(***************************************************************************)
(* The claims.                                                             *)
(***************************************************************************)

\* C1: whatever the state of config (not set, or a mapping), a placeholder
\* whose name is a set environment variable is replaced by the variable's
\* value: with F=b, a pathname whose placeholders are all ${F} becomes the
\* pathname with b written in their place.
C1_EnvironmentLookupWithoutConfig ==
    (/\ phase = "substituted"
     /\ ~ConfigSet \/ ConfigIsMapping
     /\ TokF \in DOMAIN environ
     /\ pathname \in PathnamesOver({TokF}))
    => /\ sres.exc = "none"
       /\ sres.path = LiteralReplace(pathname, TokF, environ[TokF])

\* C2: when config is set and is not valid YAML, no error reaches the caller
\* of load, and the placeholders are looked up in the environment only.
C2_MalformedConfigIsNotFatal ==
    (phase = "substituted" /\ ConfigSet /\ ~ConfigParses)
    => /\ sres.exc = "none"
       /\ (TokF \in DOMAIN environ /\ pathname \in PathnamesOver({TokF}))
            => sres.path = LiteralReplace(pathname, TokF, environ[TokF])

\* C3: with config set to any YAML value (a mapping, a scalar, a sequence or
\* null), a token that is no set environment variable and no full key path
\* through that value is replaced by the empty string, a diagnostic names
\* it, and the substitution raises nothing.
C3_UnresolvedTokenNeverRaises ==
    \A valueName \in {TokM, TokAB} :
       (/\ phase = "substituted"
        /\ ConfigParses
        /\ pathname \in PathnamesOver({valueName})
        /\ Unresolvable(valueName))
       => /\ sres.exc = "none"
          /\ sres.path = LiteralReplace(pathname, valueName, EmptyStr)
          /\ \E k \in 1..Len(sres.stderr) : sres.stderr[k] = NoValueFor(valueName)

\* C4: the substitution replaces, for each token, exactly the occurrences of
\* the literal text ${token}, so a placeholder is never given the value of
\* another token: in a pathname over ${a.b} and ${aXb} each placeholder
\* gets the value looked up for its own token.
C4_LiteralReplacement ==
    (/\ phase = "substituted"
     /\ ConfigParses
     /\ pathname \in PathnamesOver({TokAB, TokAXB})
     /\ sres.exc = "none")
    => LET cfg == varsFromYamlConfig(environ[ConfigName]).v
           own(valueName) == LookupValue(environ, cfg, valueName).s
       IN  sres.path =
             LiteralReplace(LiteralReplace(pathname, TokAB, own(TokAB)),
                            TokAXB, own(TokAXB))

\* C5: a request whose pathname, after substitution, holds no wildcard and
\* whose file, joined onto base_dir, does not exist or cannot be opened ends
\* in an I/O error at the caller of the parse, whatever base_dir is; it never
\* gives a value.  (Stated for the parses during which base_dir is not set.)
C5_MissingFileIsAnIOError ==
    LET sub == Substitute(environ, pathname)
    IN  (/\ Ended /\ ~mutated
         /\ pathname # <<>>
         /\ sub.exc = "none"
         /\ ~HasWildcard(sub.path)
         /\ ~CanOpen(JoinBase(base_dir, sub.path)))
        => outcome = Error("IOError")

\* C6: for a wildcard pathname load returns a list with one element for each
\* matched regular file, each the value of that file alone, in the order of
\* the enumeration; no matching file gives the empty list and no error.
\* (Stated for the parses during which base_dir is not set.)
C6_WildcardGivesTheList ==
    LET sub == Substitute(environ, pathname)
        p == JoinBase(base_dir, sub.path)
        vs == RefFiles(SelectSeq(iglob(p), isfile), 1)
    IN  (/\ Ended /\ ~mutated
         /\ pathname # <<>>
         /\ sub.exc = "none"
         /\ HasWildcard(p)
         /\ vs.ok)
        => outcome = Value(ListVal(vs.v))

\* C7: loadYaml chooses by the extension alone: a path that ends, letters
\* compared without regard to case, in .yaml or .yml is parsed, every
\* !include in it resolved in turn and its value put where the tag stood;
\* any other file gives its whole text as one string.  So only such a path
\* enters the parser, and the parser is of the class of the loader that met
\* the tag, at every depth; a with block over any other file ends with the text
\* of the file; one over a parsed file ends with the document, its scalars
\* in their places and a value where each tag stood.  When base_dir is not
\* set while the parse runs, every with block ends with what the file stands
\* for, and so does the parse that asked.
C7_LoadYamlByExtension ==
    /\ \A k \in 1..Depth :
          LET f == stack[k]
              doc == ParseYamlText(FileText(f.path))
          IN  /\ f.pc \in {"construct", "await"} => HasYamlExtension(f.path)
              /\ f.loader = stack[1].loader
              /\ (f.pc \in {"construct", "await"}
                     \/ (f.pc = "exit" /\ HasYamlExtension(f.path)))
                   => f.parser = f.loader
              /\ (f.pc = "exit" /\ ~HasYamlExtension(f.path))
                   => f.exc = "none" /\ f.ret = TextVal(FileText(f.path))
              /\ (f.pc = "exit" /\ HasYamlExtension(f.path) /\ f.exc = "none")
                   => /\ ~doc.err
                      /\ f.ret # NoValue
                      /\ (doc.root /\ doc.nodes[1].tag # "!include")
                            => f.ret = ScalarVal(doc.nodes[1].v)
                      /\ ~doc.root
                            => /\ f.ret.t = "list"
                               /\ Len(f.ret.xs) = Len(doc.nodes)
                               /\ \A i \in 1..Len(doc.nodes) :
                                     doc.nodes[i].tag # "!include"
                                       => f.ret.xs[i] = ScalarVal(doc.nodes[i].v)
              /\ (f.pc = "exit" /\ ~mutated)
                   => RefFile(f.path, k) =
                         IF f.exc = "none" THEN Ok(f.ret) ELSE Fail(f.exc)
    /\ (Ended /\ ~mutated /\ pathname # <<>>)
          => RefLoad(pathname, 1) =
                IF phase = "done" THEN Ok(outcome.v) ELSE Fail(outcome.exc)

\* One enumeration has given, in this order: a.yml parsed with b.yml
\* nested in it, b.yml, B.YML parsed although named in upper case, and
\* t.txt as its text, not parsed although the text is a document.
C7_Witness ==
    \E k \in 1..Depth :
       /\ stack[k].wild
       /\ Len(stack[k].result) >= 4
       /\ stack[k].result[1] = ListVal(<<ScalarVal("x"), ScalarVal("y")>>)
       /\ stack[k].result[3] = ScalarVal("y")
       /\ stack[k].result[4] = TextVal(FileText(P_t))
       /\ ~ParseYamlText(FileText(P_t)).err

\* C9: every file load opens is closed before the call that opened it
\* returns, on every exit path: no file is open when a top-level parse has
\* ended, with a value or with an error; every open file belongs to a call
\* that is inside its with block, so a call that enumerates a wildcard has
\* closed one match before it opens the next.
C9_FilesAreClosed ==
    /\ Ended => openFiles = {}
    /\ \A h \in openFiles :
          /\ h.depth \in 1..Depth
          /\ stack[h.depth].pc \in {"loadYaml", "construct", "await", "exit"}
          /\ stack[h.depth].path = h.path
    /\ \A k \in 1..Depth :
          stack[k].pc \in {"load", "join", "match", "iter", "open",
                           "return", "raise"}
             => \A h \in openFiles : h.depth # k

\* A wildcard expansion has ended with the error of a file included by one
\* of its matches, after the matches before it were read.
C9_Witness ==
    /\ phase = "failed"
    /\ HasWildcard(pathname)
    /\ outcome = Error("YAMLError")
    /\ openFiles = {}

\* C10: a top-level parse that has started ends, with a value or with an
\* error, also when a file includes itself, directly or through others.
C10_ParseEnds == (phase = "running") ~> Ended

\* The parse of a file that includes itself has ended.
C10_Witness ==
    /\ phase = "failed"
    /\ pathname \in {P_s, P_p}
    /\ outcome = Error("RecursionError")

\* s without the white space at its ends.
Trimmed(s) ==
    LET inked == {i \in 1..Len(s) : s[i] \notin Whitespace}
    IN  IF inked = {} THEN <<>>
        ELSE SubSeq(s, Min(inked), CHOOSE i \in inked : \A j \in inked : j =< i)

\* The step is a call that made an instance and bound it under name in the
\* classes the call writes to, and changed no other binding.
BoundUnder(name) ==
    /\ ~regCall'.raised
    /\ regCall'.instance # NoInstance
    /\ \A L \in LoaderClasses :
          IF L \in TargetLoaders(regCall'.loader_class)
          THEN /\ DOMAIN registry'[L] = DOMAIN registry[L] \cup {name}
               /\ registry'[L][name] = regCall'.instance
               /\ \A tg \in DOMAIN registry[L] \ {name} :
                     registry'[L][tg] = registry[L][tg]
          ELSE registry'[L] = registry[L]

\* The step is a call that raised before an instance was made.
Rejected ==
    /\ regCall'.raised
    /\ regCall'.instance = NoInstance
    /\ registry' = registry

\* C8, as stated: a missing, empty or blank tag binds under !include, a tag
\* that starts with "!" binds under that tag, any other tag raises and
\* leaves every table as it was.
C8_TagAsGiven ==
    [][regCall'.n = regCall.n + 1 =>
         LET tag == regCall'.tag
         IN  IF ~tag.given \/ \A i \in 1..Len(tag.s) : tag.s[i] \in Whitespace
             THEN BoundUnder(DEFAULT_TAG_NAME)
             ELSE IF tag.s[1] = "!" THEN BoundUnder(tag.s)
             ELSE Rejected]_vars

\* C8, amended: the tag is taken without the white space at its ends; a
\* missing tag or one that is then empty binds under !include, one that
\* then starts with "!" binds under the tag so trimmed, any other raises
\* before an instance is made and leaves every table as it was.
C8_TagIsTrimmedThenChecked ==
    [][regCall'.n = regCall.n + 1 =>
         LET tag == regCall'.tag
             trimmed == IF tag.given THEN Trimmed(tag.s) ELSE <<>>
         IN  IF trimmed = <<>> THEN BoundUnder(DEFAULT_TAG_NAME)
             ELSE IF trimmed[1] = "!" THEN BoundUnder(trimmed)
             ELSE Rejected]_vars

\* A tag with white space around it has been bound under its trimmed text.
C8_Witness ==
    /\ regCall.tag = [given |-> TRUE, s |-> <<" ">> \o TagInc \o <<" ">>]
    /\ ~regCall.raised
    /\ \A L \in TargetLoaders(regCall.loader_class) :
          /\ TagInc \in DOMAIN registry[L]
          /\ registry[L][TagInc] = regCall.instance
====
